---- MODULE Spec2Model ----
(***************************************************************************)
(* The three batch source transformers of neural-break-unity:              *)
(*   fix_instances.py          Reference Rewriter (fix_file, main)         *)
(*   remove_instance_props.py  Block Remover (remove_singleton_code, main) *)
(*   update_debug_logs.py      Call Wrapper + Import Injector              *)
(*                                                                         *)
(* File content is a sequence of lexemes (strings); the file's text is the *)
(* concatenation of the lexemes.  For the Block Remover a lexeme is one    *)
(* line as readlines() returns it.  Every regular expression of the source *)
(* is evaluated on the lexemes of the alphabets below.                     *)
(*                                                                         *)
(* mode = "main": the script's main() walks its enumeration.               *)
(* mode = "call": the per-file function of the script is called, again and *)
(* again, on one file (a re-run of the script over the same file);         *)
(* original is the file before the first call, applied the calls made.     *)
(***************************************************************************)
EXTENDS Integers, Sequences, FiniteSets, TLC

VARIABLES script, mode, pc, idx,
          total_files, total_changes, processed_count, skipped_count,
          original, file, calls, applied, ret, changes, wrote,
          lines, i, new_lines, skip_until, removed_something

vars == <<script, mode, pc, idx,
          total_files, total_changes, processed_count, skipped_count,
          original, file, calls, applied, ret, changes, wrote,
          lines, i, new_lines, skip_until, removed_something>>

mainVars == <<idx, total_files, total_changes, processed_count, skipped_count>>
scanVars == <<lines, i, new_lines, skip_until, removed_something>>

(* ------------------------------ bounds --------------------------------- *)
\* longest file, in lines, handed to the Block Remover
MaxLines == 3
\* longest content, in lexemes, handed to the Reference Rewriter
MaxFixLen == 5
\* longest content, in lexemes, handed to the Call Wrapper / Import Injector
MaxLogLen == 3
\* files the directory walk of fix_instances / update_debug_logs enumerates
NumFiles == 2
\* calls of a per-file function on the same file
MaxCalls == 2
\* longest content, in lexemes or lines, of a file that main() walks over
MaxMainLen == 2

SeqsUpTo(S, n) == UNION {[1..k -> S] : k \in 0..n}

(* ======================= remove_instance_props.py ====================== *)

RemoveList == <<"AchievementSystem", "ArenaManager", "GamepadRumble",
                "MusicManager", "EnvironmentParticles", "FeedbackManager",
                "PostProcessManager", "ShipCustomization", "DamageNumberPopup",
                "Minimap", "StarfieldController", "UIManager">>

\* the lines a file handed to the Block Remover is made of
PropertyOpenLine == "    public static Foo Instance {\n"
AutoPropertyLine == "    public static Foo Instance { get; private set; }\n"
GuardLine        == "        if (Instance != null && Instance != this)\n"
GuardOneLine     == "        if (Instance != null) { Destroy(gameObject); return; }\n"
AssignLine       == "        Instance = this;\n"
TeardownLine     == "        if (Instance == this)\n"
CloseLine        == "        }\n"
PlainLine        == "        Destroy(gameObject);\n"

LineAlphabet == {PropertyOpenLine, AutoPropertyLine, GuardLine, GuardOneLine,
                 AssignLine, TeardownLine, CloseLine, PlainLine}

\* re.search(r'public\s+static\s+\w+\s+Instance\s*{', line)
IsPropertyOpen(line) == line \in {PropertyOpenLine, AutoPropertyLine}
\* 'if (Instance != null && Instance != this)' in line or 'if (Instance != null' in line
IsGuard(line) == line \in {GuardLine, GuardOneLine}
\* re.search(r'^\s+Instance\s*=\s*(this|null);', line)
IsAssign(line) == line \in {AssignLine}
\* re.search(r'if\s*\(\s*Instance\s*==\s*this\s*\)', line)
IsTeardown(line) == line \in {TeardownLine}
\* '}' in line
HasClose(line) == line \in {AutoPropertyLine, GuardOneLine, CloseLine}

MatchesRule(line) ==
    IsPropertyOpen(line) \/ IsGuard(line) \/ IsAssign(line) \/ IsTeardown(line)

\* while i < len(lines) and '}' not in lines[i]: i += 1
\* (indices are 1-based here: the code's i is this i minus one)
RECURSIVE SkipBlock(_, _)
SkipBlock(ls, j) ==
    IF j <= Len(ls) /\ ~HasClose(ls[j]) THEN SkipBlock(ls, j + 1) ELSE j

\* the locals of remove_singleton_code at the head of its while loop
ScanStart == [i |-> 1, new_lines |-> <<>>, skip_until |-> "None",
              removed_something |-> FALSE]

\* rule 1: the property declaration
PropertyStep(ls, st) ==
    [st EXCEPT !.skip_until = "}", !.removed_something = TRUE, !.i = @ + 1]

\* rule 2, with the extra line the guard block is said to absorb
GuardStepExtraLine(ls, st) ==
    [st EXCEPT !.i = SkipBlock(ls, st.i) + 2, !.removed_something = TRUE]

\* rule 2: the Awake singleton check
GuardStep(ls, st) ==
    [st EXCEPT !.i = SkipBlock(ls, st.i) + 1, !.removed_something = TRUE]

\* rule 3 without its continue: the line falls through and is kept
AssignStepFallsThrough(ls, st) ==
    [st EXCEPT !.removed_something = TRUE,
               !.new_lines = Append(@, ls[st.i]), !.i = @ + 1]

\* rule 3: Instance = this / null
AssignStep(ls, st) ==
    [st EXCEPT !.removed_something = TRUE, !.i = @ + 1]

\* rule 4: the OnDestroy cleanup
TeardownStep(ls, st) ==
    [st EXCEPT !.i = SkipBlock(ls, st.i) + 1, !.removed_something = TRUE]

\* if skip_until: ... (with skip_until = '}', "skip_until in line" is HasClose)
SkipStep(ls, st) ==
    [st EXCEPT !.skip_until = IF HasClose(ls[st.i]) THEN "None" ELSE @,
               !.i = @ + 1]

\* new_lines.append(line)
KeepStep(ls, st) ==
    [st EXCEPT !.new_lines = Append(@, ls[st.i]), !.i = @ + 1]

\* one iteration of the while loop: the rules in the order the code tests them
ScanStep(ls, st) ==
    LET line == ls[st.i] IN
    IF IsPropertyOpen(line) THEN PropertyStep(ls, st)
    ELSE IF IsGuard(line) THEN GuardStep(ls, st)
    ELSE IF IsAssign(line) THEN AssignStep(ls, st)
    ELSE IF IsTeardown(line) THEN TeardownStep(ls, st)
    ELSE IF st.skip_until # "None" THEN SkipStep(ls, st)
    ELSE KeepStep(ls, st)

\* the whole while loop
RECURSIVE RunScan(_, _)
RunScan(ls, st) ==
    IF st.i <= Len(ls) THEN RunScan(ls, ScanStep(ls, st)) ELSE st

\* remove_singleton_code as a function of the lines read
remove_singleton_code(ls) ==
    LET st == RunScan(ls, ScanStart) IN
    [new_lines |-> st.new_lines, removed |-> st.removed_something]

(* ============================ fix_instances.py ========================== *)

REMOVED_SINGLETONS == <<"AchievementSystem", "ArenaManager", "PlayerLevelSystem",
                        "WeaponUpgradeManager", "GamepadRumble", "MusicManager",
                        "UIFeedbacks", "ScreenFlash", "VFXManager", "EnemyDeathVFX",
                        "StarfieldController", "EnvironmentParticles",
                        "FeedbackManager", "PostProcessManager", "HighScoreManager",
                        "ShipCustomization", "WaveAnnouncement", "ControlsOverlay",
                        "DamageNumberPopup", "Minimap", "FeedbackSetup", "UIManager">>

\* the lexemes a file handed to the Reference Rewriter is made of
Accessor   == ".Instance"
IdentChar  == "X"
Space      == " "
FactoryOpen  == "FindObjectOfType<"
FactoryClose == ">()"

FixAlphabet == {"UIManager", "Minimap", Accessor, IdentChar, Space}

Elems(q) == {q[k] : k \in DOMAIN q}

\* the first / last character of the lexeme is a word character (\w)
StartsWord(tok) ==
    tok \in Elems(REMOVED_SINGLETONS) \cup {IdentChar, FactoryOpen}
EndsWord(tok) ==
    tok \in Elems(REMOVED_SINGLETONS) \cup {IdentChar, Accessor}

\* rf'\b{singleton}\.Instance\b' matches at lexeme p
MatchAt(content, singleton, p) ==
    /\ p + 1 <= Len(content)
    /\ content[p] = singleton
    /\ content[p + 1] = Accessor
    /\ (p = 1 \/ ~EndsWord(content[p - 1]))
    /\ (p + 1 = Len(content) \/ ~StartsWord(content[p + 2]))

\* re.search(pattern, content)
ReSearch(content, singleton) ==
    \E p \in 1..Len(content) : MatchAt(content, singleton, p)

\* f'FindObjectOfType<{singleton}>()'
Replacement(singleton) == <<FactoryOpen, singleton, FactoryClose>>

RECURSIVE SubFrom(_, _, _, _)
SubFrom(content, singleton, p, count) ==
    IF p > Len(content) THEN <<>>
    ELSE IF count # 0 /\ MatchAt(content, singleton, p)
         THEN Replacement(singleton)
              \o SubFrom(content, singleton, p + 2, IF count > 0 THEN count - 1 ELSE count)
         ELSE <<content[p]>> \o SubFrom(content, singleton, p + 1, count)

\* re.sub with count=1: only the first occurrence is replaced
ReSubFirstOnly(content, singleton) == SubFrom(content, singleton, 1, 1)

\* re.sub(pattern, replacement, content): every occurrence, left to right
ReSub(content, singleton) == SubFrom(content, singleton, 1, -1)

\* for singleton in REMOVED_SINGLETONS: ...
RECURSIVE FixLoop(_, _, _)
FixLoop(content, chg, k) ==
    IF k > Len(REMOVED_SINGLETONS) THEN [content |-> content, changes |-> chg]
    ELSE LET singleton == REMOVED_SINGLETONS[k] IN
         IF ReSearch(content, singleton)
         THEN FixLoop(ReSub(content, singleton), Append(chg, singleton), k + 1)
         ELSE FixLoop(content, chg, k + 1)

\* fix_file as a function of the content read: the content left on disk,
\* whether the file was written, and the value returned (None is <<>> with
\* wrote = FALSE)
fix_file(original_content) ==
    LET r == FixLoop(original_content, <<>>, 1) IN
    [content |-> r.content,
     wrote   |-> r.content # original_content,
     changes |-> IF r.content # original_content THEN r.changes ELSE <<>>]

(* ========================== update_debug_logs.py ======================== *)

\* the lexemes a file handed to update_debug_logs is made of
ImportLine      == "using System;\n"
USING_STATEMENT == "using NeuralBreak.Utils;"
LiteralLine     == "using NeuralBreak.Utils;\n"
NamespaceLine   == "namespace Game {\n"
BlankLine       == "\n"
DebugLog        == "Debug.Log("
DebugLogWarning == "Debug.LogWarning("
DebugLogError   == "Debug.LogError("
Qualifier       == "UnityEngine."
HelperLog        == "LogHelper.Log("
HelperLogWarning == "LogHelper.LogWarning("
HelperLogError   == "LogHelper.LogError("

LogAlphabet == {ImportLine, LiteralLine, NamespaceLine, BlankLine,
                DebugLog, DebugLogWarning, DebugLogError, Qualifier}

\* the paths the walk hands to should_process_file
PlainPath  == "Core/Player.cs"
EditorPath == "Editor/BuildTool.cs"
DebugPath  == "Tools/DebugConsole.cs"
Paths == {PlainPath, EditorPath, DebugPath}

\* 'Editor' in str(filepath) / 'Debug' in str(filepath)
should_process_file(filepath) ==
    IF filepath \in {EditorPath} THEN FALSE
    ELSE IF filepath \in {DebugPath} THEN FALSE
    ELSE TRUE

\* USING_STATEMENT in content
HasUsingStatement(content) == \E p \in 1..Len(content) : content[p] = LiteralLine

\* the lexeme is one 'using [^;]+;' followed by a newline
IsUsingLine(tok) == tok \in {ImportLine, LiteralLine}

\* the last character of the lexeme is whitespace (\s)
EndsSpace(tok) == tok \in {ImportLine, LiteralLine, NamespaceLine, BlankLine}

\* [\r\n]+ is greedy: the blank lines after a using line belong to the match
RECURSIVE SkipNewlines(_, _)
SkipNewlines(content, q) ==
    IF q <= Len(content) /\ content[q] = BlankLine
    THEN SkipNewlines(content, q + 1) ELSE q

\* the end of the match of (using [^;]+;[\r\n]+)+ that starts at lexeme p:
\* the index of the first lexeme after it
RECURSIVE UsingMatchEnd(_, _)
UsingMatchEnd(content, p) ==
    LET q == SkipNewlines(content, p + 1) IN
    IF q <= Len(content) /\ IsUsingLine(content[q])
    THEN UsingMatchEnd(content, q) ELSE q

\* list(USING_SECTION_PATTERN.finditer(content)): the end of every match,
\* in order
RECURSIVE UsingMatches(_, _)
UsingMatches(content, p) ==
    IF p > Len(content) THEN <<>>
    ELSE IF IsUsingLine(content[p])
         THEN LET e == UsingMatchEnd(content, p) IN
              <<e>> \o UsingMatches(content, e)
         ELSE UsingMatches(content, p + 1)

\* content[:insert_pos] + inserted + content[insert_pos:], insert_pos being
\* the offset of lexeme q
InsertBefore(content, q, inserted) ==
    SubSeq(content, 1, q - 1) \o inserted \o SubSeq(content, q, Len(content))

\* re.search(r'namespace\s+[\w\.]+\s*\{', content).start()
NamespaceStart(content) ==
    IF \E p \in 1..Len(content) : content[p] = NamespaceLine
    THEN CHOOSE p \in 1..Len(content) :
            /\ content[p] = NamespaceLine
            /\ \A r \in 1..(p - 1) : content[r] # NamespaceLine
    ELSE 0

\* add_using_statement without the "already present" test of its first lines
add_using_statement_unguarded(content) ==
    LET matches == UsingMatches(content, 1) IN
    IF matches # <<>>
    THEN InsertBefore(content, matches[Len(matches)], <<LiteralLine>>)
    ELSE IF NamespaceStart(content) # 0
    THEN InsertBefore(content, NamespaceStart(content), <<LiteralLine, BlankLine>>)
    ELSE <<LiteralLine, BlankLine>> \o content

add_using_statement(content) ==
    IF HasUsingStatement(content) THEN content
    ELSE LET matches == UsingMatches(content, 1) IN
         IF matches # <<>>
         THEN InsertBefore(content, matches[Len(matches)], <<LiteralLine>>)
         ELSE IF NamespaceStart(content) # 0
         THEN InsertBefore(content, NamespaceStart(content), <<LiteralLine, BlankLine>>)
         ELSE <<LiteralLine, BlankLine>> \o content

\* PATTERN.sub(r'\1<to>', content) for the pattern (\s+)<from>: a call
\* prefix is rewritten where whitespace stands right before it
SubPrefix(content, from, to) ==
    [p \in 1..Len(content) |->
        IF content[p] = from /\ p > 1 /\ EndsSpace(content[p - 1])
        THEN to ELSE content[p]]

\* replace_debug_calls with a third substitution, for the error level
replace_debug_calls_all_levels(content) ==
    SubPrefix(SubPrefix(SubPrefix(content, DebugLog, HelperLog),
                        DebugLogWarning, HelperLogWarning),
              DebugLogError, HelperLogError)

replace_debug_calls(content) ==
    SubPrefix(SubPrefix(content, DebugLog, HelperLog),
              DebugLogWarning, HelperLogWarning)

\* 'Debug.Log(' in content or 'Debug.LogWarning(' in content
HasDebugCall(content) ==
    \E p \in 1..Len(content) : content[p] \in {DebugLog, DebugLogWarning}

\* the I/O outcomes of one file: open() for reading or for writing raises
IO == {"ok", "read_error", "write_error"}

\* process_file as a function of the content read and the file's I/O outcome
process_file(original_content, io) ==
    IF io = "read_error"
    THEN [content |-> original_content, wrote |-> FALSE, ret |-> FALSE]
    ELSE IF ~HasDebugCall(original_content)
    THEN [content |-> original_content, wrote |-> FALSE, ret |-> FALSE]
    ELSE LET content == replace_debug_calls(add_using_statement(original_content)) IN
         IF content # original_content
         THEN IF io = "write_error"
              THEN [content |-> original_content, wrote |-> FALSE, ret |-> FALSE]
              ELSE [content |-> content, wrote |-> TRUE, ret |-> TRUE]
         ELSE [content |-> original_content, wrote |-> FALSE, ret |-> FALSE]

(* ============================ the state machine ========================= *)

Scripts == {"fix_instances", "remove_instance_props", "update_debug_logs"}

\* the lexemes (lines, for the Block Remover) of the files a script reads
Alphabet(s) ==
    IF s = "fix_instances" THEN FixAlphabet
    ELSE IF s = "remove_instance_props" THEN LineAlphabet
    ELSE LogAlphabet

\* the contents of the file a per-file function is called on
Inputs(s) ==
    IF s = "fix_instances" THEN SeqsUpTo(FixAlphabet, MaxFixLen)
    ELSE IF s = "remove_instance_props" THEN SeqsUpTo(LineAlphabet, MaxLines)
    ELSE SeqsUpTo(LogAlphabet, MaxLogLen)

\* the contents of a file main() comes across
MainInputs(s) == SeqsUpTo(Alphabet(s), MaxMainLen)

\* the length of the enumeration main() walks
EnumLen(s) == IF s = "remove_instance_props" THEN Len(RemoveList) ELSE NumFiles

Init ==
    /\ script \in Scripts
    /\ mode \in {"main", "call"}
    /\ pc = IF mode = "main" THEN "loop" ELSE "ready"
    /\ idx = 0
    /\ total_files = 0
    /\ total_changes = 0
    /\ processed_count = 0
    /\ skipped_count = 0
    /\ file \in (IF mode = "call" THEN Inputs(script) ELSE {<<>>})
    /\ original = file
    /\ calls = 0
    /\ applied = <<>>
    /\ ret = "unset"
    /\ changes = <<>>
    /\ wrote = FALSE
    /\ lines = <<>>
    /\ i = 1
    /\ new_lines = <<>>
    /\ skip_until = "None"
    /\ removed_something = FALSE

callVars == <<original, file, calls, applied, ret, changes, wrote>>

(* ------------------------- main() of fix_instances ---------------------- *)
\* one iteration of "for cs_file in scripts_dir.rglob('*.cs')": fix_file has
\* no exception handler, so an open() that raises leaves main()
FixMainStep ==
    /\ mode = "main" /\ script = "fix_instances" /\ pc = "loop"
    /\ idx < NumFiles
    /\ \E content \in MainInputs("fix_instances"), io \in IO :
          LET r == fix_file(content)
              raises == io = "read_error" \/ (io = "write_error" /\ r.wrote)
          IN  /\ idx' = idx + 1
              /\ pc' = IF raises THEN "aborted" ELSE "loop"
              /\ total_files' =
                    IF ~raises /\ r.changes # <<>> THEN total_files + 1
                    ELSE total_files
              /\ total_changes' =
                    IF ~raises /\ r.changes # <<>>
                    THEN total_changes + Len(r.changes) ELSE total_changes
    /\ UNCHANGED <<script, mode, processed_count, skipped_count>>
    /\ UNCHANGED callVars
    /\ UNCHANGED scanVars

(* --------------------- main() of remove_instance_props ------------------ *)
\* one iteration of "for singleton_name in REMOVED_SINGLETONS" whose rglob
\* finds no file
RemoveMainNoFile ==
    /\ mode = "main" /\ script = "remove_instance_props" /\ pc = "loop"
    /\ idx < Len(RemoveList)
    /\ idx' = idx + 1
    /\ UNCHANGED <<script, mode, pc, total_files, total_changes,
                   processed_count, skipped_count>>
    /\ UNCHANGED callVars
    /\ UNCHANGED scanVars

\* one iteration whose rglob finds a file: remove_singleton_code has no
\* exception handler either
RemoveMainStep ==
    /\ mode = "main" /\ script = "remove_instance_props" /\ pc = "loop"
    /\ idx < Len(RemoveList)
    /\ \E ls \in MainInputs("remove_instance_props"), io \in IO :
          LET r == remove_singleton_code(ls)
              raises == io = "read_error" \/ (io = "write_error" /\ r.removed)
          IN  /\ idx' = idx + 1
              /\ pc' = IF raises THEN "aborted" ELSE "loop"
    /\ UNCHANGED <<script, mode, total_files, total_changes,
                   processed_count, skipped_count>>
    /\ UNCHANGED callVars
    /\ UNCHANGED scanVars

(* ----------------------- main() of update_debug_logs -------------------- *)
\* one iteration of "for filepath in SCRIPTS_DIR.rglob('*.cs')"
LogsMainStep ==
    /\ mode = "main" /\ script = "update_debug_logs" /\ pc = "loop"
    /\ idx < NumFiles
    /\ \E filepath \in Paths, content \in MainInputs("update_debug_logs"), io \in IO :
          /\ idx' = idx + 1
          /\ IF should_process_file(filepath)
             THEN /\ processed_count' =
                        IF process_file(content, io).ret
                        THEN processed_count + 1 ELSE processed_count
                  /\ skipped_count' = skipped_count
             ELSE /\ skipped_count' = skipped_count + 1
                  /\ processed_count' = processed_count
    /\ UNCHANGED <<script, mode, pc, total_files, total_changes>>
    /\ UNCHANGED callVars
    /\ UNCHANGED scanVars

\* the enumeration is exhausted: main() prints its totals and returns
MainDone ==
    /\ mode = "main" /\ pc = "loop"
    /\ idx = EnumLen(script)
    /\ pc' = "done"
    /\ UNCHANGED <<script, mode>>
    /\ UNCHANGED mainVars
    /\ UNCHANGED callVars
    /\ UNCHANGED scanVars

(* ---------------------- the per-file functions, called ------------------ *)
CallFixFile ==
    /\ mode = "call" /\ script = "fix_instances" /\ pc = "ready"
    /\ calls < MaxCalls
    /\ LET r == fix_file(file) IN
          /\ file' = r.content
          /\ wrote' = r.wrote
          /\ changes' = r.changes
          /\ ret' = IF r.wrote THEN "changes" ELSE "None"
    /\ calls' = calls + 1
    /\ applied' = Append(applied, "fix_file")
    /\ UNCHANGED <<script, mode, pc, original>>
    /\ UNCHANGED mainVars
    /\ UNCHANGED scanVars

CallAddUsingStatement ==
    /\ mode = "call" /\ script = "update_debug_logs" /\ pc = "ready"
    /\ calls < MaxCalls
    /\ file' = add_using_statement(file)
    /\ calls' = calls + 1
    /\ applied' = Append(applied, "add_using_statement")
    /\ ret' = "content"
    /\ UNCHANGED <<script, mode, pc, original, changes, wrote>>
    /\ UNCHANGED mainVars
    /\ UNCHANGED scanVars

CallReplaceDebugCalls ==
    /\ mode = "call" /\ script = "update_debug_logs" /\ pc = "ready"
    /\ calls < MaxCalls
    /\ file' = replace_debug_calls(file)
    /\ calls' = calls + 1
    /\ applied' = Append(applied, "replace_debug_calls")
    /\ ret' = "content"
    /\ UNCHANGED <<script, mode, pc, original, changes, wrote>>
    /\ UNCHANGED mainVars
    /\ UNCHANGED scanVars

\* remove_singleton_code: readlines() and the locals before the loop
CallRemoveSingletonCode ==
    /\ mode = "call" /\ script = "remove_instance_props" /\ pc = "ready"
    /\ calls < MaxCalls
    /\ pc' = "scan"
    /\ lines' = file
    /\ i' = ScanStart.i
    /\ new_lines' = ScanStart.new_lines
    /\ skip_until' = ScanStart.skip_until
    /\ removed_something' = ScanStart.removed_something
    /\ applied' = Append(applied, "remove_singleton_code")
    /\ UNCHANGED <<script, mode, original, file, calls, ret, changes, wrote>>
    /\ UNCHANGED mainVars

ScanState == [i |-> i, new_lines |-> new_lines, skip_until |-> skip_until,
              removed_something |-> removed_something]

\* one iteration of the while loop of remove_singleton_code
Iterate ==
    LET st == ScanStep(lines, ScanState) IN
    /\ i' = st.i
    /\ new_lines' = st.new_lines
    /\ skip_until' = st.skip_until
    /\ removed_something' = st.removed_something
    /\ UNCHANGED <<script, mode, pc, lines>>
    /\ UNCHANGED mainVars
    /\ UNCHANGED callVars

InLoop == mode = "call" /\ pc = "scan" /\ i <= Len(lines)

ScanProperty == InLoop /\ IsPropertyOpen(lines[i]) /\ Iterate

ScanGuard == InLoop /\ ~IsPropertyOpen(lines[i]) /\ IsGuard(lines[i]) /\ Iterate

ScanAssign ==
    /\ InLoop
    /\ ~IsPropertyOpen(lines[i]) /\ ~IsGuard(lines[i]) /\ IsAssign(lines[i])
    /\ Iterate

ScanTeardown ==
    /\ InLoop
    /\ ~IsPropertyOpen(lines[i]) /\ ~IsGuard(lines[i]) /\ ~IsAssign(lines[i])
    /\ IsTeardown(lines[i])
    /\ Iterate

ScanSkip == InLoop /\ ~MatchesRule(lines[i]) /\ skip_until # "None" /\ Iterate

ScanKeep == InLoop /\ ~MatchesRule(lines[i]) /\ skip_until = "None" /\ Iterate

\* the loop is over: write the file if something was removed, and return
ScanReturn ==
    /\ mode = "call" /\ pc = "scan" /\ i > Len(lines)
    /\ pc' = "ready"
    /\ file' = IF removed_something THEN new_lines ELSE file
    /\ wrote' = removed_something
    /\ ret' = IF removed_something THEN "True" ELSE "False"
    /\ calls' = calls + 1
    /\ UNCHANGED <<script, mode, original, applied, changes>>
    /\ UNCHANGED mainVars
    /\ UNCHANGED scanVars

Next ==
    \/ FixMainStep
    \/ RemoveMainNoFile
    \/ RemoveMainStep
    \/ LogsMainStep
    \/ MainDone
    \/ CallFixFile
    \/ CallAddUsingStatement
    \/ CallReplaceDebugCalls
    \/ CallRemoveSingletonCode
    \/ ScanProperty
    \/ ScanGuard
    \/ ScanAssign
    \/ ScanTeardown
    \/ ScanSkip
    \/ ScanKeep
    \/ ScanReturn

Spec == Init /\ [][Next]_vars

TypeOK ==
    /\ script \in Scripts
    /\ mode \in {"main", "call"}
    /\ pc \in {"loop", "done", "aborted", "ready", "scan"}
    /\ idx \in 0..EnumLen(script)
    /\ calls \in 0..MaxCalls
    /\ wrote \in BOOLEAN
    /\ removed_something \in BOOLEAN
    /\ skip_until \in {"None", "}"}

(* ================================ claims ================================ *)

RemoverReturned ==
    script = "remove_instance_props" /\ mode = "call" /\ pc = "ready" /\ calls >= 1

\* the next iteration of the while loop is rule 2 / rule 4
GuardIteration == InLoop /\ ~IsPropertyOpen(lines[i]) /\ IsGuard(lines[i])
TeardownIteration ==
    /\ InLoop
    /\ ~IsPropertyOpen(lines[i]) /\ ~IsGuard(lines[i]) /\ ~IsAssign(lines[i])
    /\ IsTeardown(lines[i])

\* the iteration drops the lines from the opening line i to the first line
\* at or after it that contains '}' (to the end of the file when there is
\* none), and `extra` lines after that one
SpanThroughFirstClose(extra) ==
    LET c == i' - 1 - extra IN
    /\ new_lines' = new_lines
    /\ c >= i
    /\ c <= Len(lines) + 1
    /\ \A j \in i..(c - 1) : j <= Len(lines) /\ ~HasClose(lines[j])
    /\ (c <= Len(lines) => HasClose(lines[c]))

\* a line at or after line i contains '}', and a line follows it
ClosedBeforeLastLine ==
    \E c \in i..(Len(lines) - 1) : HasClose(lines[c])

\* C1: when a property-block opening line has no later line containing '}'
\* (and no other rule matches a line), remove_singleton_code removes
\* nothing: the lines written equal the lines read and the file is not
\* rewritten.
C1_UnterminatedPropertyLeftAlone ==
    (/\ RemoverReturned
     /\ calls = 1
     /\ \E k \in 1..Len(lines) :
           /\ IsPropertyOpen(lines[k])
           /\ \A j \in (k + 1)..Len(lines) : ~HasClose(lines[j])
           /\ \A j \in 1..(k - 1) : ~IsPropertyOpen(lines[j])
     /\ \A j \in 1..Len(lines) :
           ~IsGuard(lines[j]) /\ ~IsAssign(lines[j]) /\ ~IsTeardown(lines[j]))
    => (new_lines = lines /\ file = lines /\ ~wrote /\ ret = "False")

\* C6 as stated: rule 2 drops the opening line, the lines up to and
\* including the first line containing '}', and exactly one more line;
\* rule 4 drops the same span without the additional line.
C6_GuardAbsorbsTrailingLine ==
    [][/\ (GuardIteration /\ ~HasClose(lines[i]) /\ ClosedBeforeLastLine)
            => SpanThroughFirstClose(1)
       /\ TeardownIteration => SpanThroughFirstClose(0)]_vars

\* C6 amended: rule 2 drops the opening line and the lines up to and
\* including the first line, at or after the opening line, that contains
\* '}' (through the end of the file when none does) and no additional line;
\* rule 4 drops the same span, so on the same input both rules advance to
\* the same line.
C6_GuardSpanEqualsTeardownSpan ==
    [][/\ GuardIteration =>
            /\ SpanThroughFirstClose(0)
            /\ TeardownStep(lines, ScanState).i = i'
            /\ TeardownStep(lines, ScanState).new_lines = new_lines'
       /\ TeardownIteration => SpanThroughFirstClose(0)]_vars

\* a guard block was dropped and the line right after its closing line kept
C6_Witness ==
    /\ RemoverReturned
    /\ Len(lines) >= 3
    /\ lines[1] = GuardLine
    /\ HasClose(lines[2])
    /\ ~MatchesRule(lines[3]) /\ ~HasClose(lines[3])
    /\ new_lines # <<>>
    /\ new_lines[1] = lines[3]

\* C9: while a property block is open, no line of its span is tested
\* against a rule: every iteration consumes exactly one line, keeps nothing,
\* and the span ends with the first line that contains '}'.
C9_NoRuleInsidePropertySpan ==
    [][(InLoop /\ skip_until # "None") =>
          /\ i' = i + 1
          /\ new_lines' = new_lines
          /\ skip_until' = IF HasClose(lines[i]) THEN "None" ELSE skip_until]_vars

\* C10: the lines remove_singleton_code leaves in the file match none of
\* the four rules; a second call on its own output removes nothing, returns
\* False and does not write; and a file with no matching line is returned
\* as the same lines in the same order, unwritten.
C10_RerunRemovesNothing ==
    RemoverReturned =>
        /\ \A k \in 1..Len(file) : ~MatchesRule(file[k])
        /\ calls >= 2 =>
              (ret = "False" /\ ~wrote /\ ~removed_something
               /\ new_lines = lines /\ file = lines)
        /\ (calls = 1 /\ \A k \in 1..Len(original) : ~MatchesRule(original[k])) =>
              (ret = "False" /\ ~wrote /\ new_lines = original /\ file = original)

\* the second call returned, after a first call that removed some lines and
\* kept others
C10_Witness ==
    /\ RemoverReturned
    /\ calls = 2
    /\ file # original
    /\ file # <<>>

(* ---------------------------- update_debug_logs ------------------------- *)

LogsCalled == script = "update_debug_logs" /\ mode = "call" /\ calls >= 1

\* the number of occurrences of the literal 'using NeuralBreak.Utils;'
Occurrences(content) ==
    Cardinality({p \in 1..Len(content) : content[p] = LiteralLine})

OnlyApplied(fn) == \A k \in 1..Len(applied) : applied[k] = fn

\* C2 as stated: for every content, after add_using_statement has been
\* applied (once, twice, any number of times) the content holds exactly one
\* occurrence of the literal line.
C2_ExactlyOneOccurrence ==
    (LogsCalled /\ OnlyApplied("add_using_statement")) => Occurrences(file) = 1

\* C2 amended: for every content that holds at most one occurrence of the
\* literal, one application and every further one leave exactly one
\* occurrence; for every content, an application to the output of an
\* earlier one returns it unchanged, and content that already holds the
\* literal is returned unchanged, so no application adds a second one.
C2_AtMostOneStaysOne ==
    [][(/\ script = "update_debug_logs" /\ mode = "call"
        /\ calls' = calls + 1
        /\ OnlyApplied("add_using_statement")'
       ) =>
          /\ Occurrences(original) <= 1 => Occurrences(file') = 1
          /\ calls >= 1 => file' = file
          /\ Occurrences(file) >= 1 => file' = file
          /\ Occurrences(file') = IF Occurrences(file) = 0 THEN 1
                                  ELSE Occurrences(file)]_vars

\* add_using_statement was applied twice to content that lacked the literal
C2_Witness ==
    /\ LogsCalled
    /\ applied = <<"add_using_statement", "add_using_statement">>
    /\ Occurrences(original) = 0
    /\ Occurrences(file) = 1

\* C3: after replace_debug_calls the content holds no occurrence of
\* 'Debug.Log(' or 'Debug.LogWarning(', whatever stands before it.
C3_NoOriginPrefixLeft ==
    (LogsCalled /\ applied[Len(applied)] = "replace_debug_calls") =>
        \A p \in 1..Len(file) : file[p] \notin {DebugLog, DebugLogWarning}

\* C4: replace_debug_calls leaves every 'Debug.LogError(' where it is, with
\* the same text: the content keeps its length in lexemes, a position holds
\* the error-level call after the pass exactly if it held it before, and
\* the sequence of error-level calls is the same (through any calls of the
\* two functions).
C4_ErrorCallsUntouched ==
    LogsCalled =>
        /\ SelectSeq(file, LAMBDA t : t = DebugLogError)
              = SelectSeq(original, LAMBDA t : t = DebugLogError)
        /\ \A p \in 1..Len(file) : file[p] # HelperLogError
        /\ OnlyApplied("replace_debug_calls") =>
              /\ Len(file) = Len(original)
              /\ \A p \in 1..Len(file) :
                    (file[p] = DebugLogError) <=> (original[p] = DebugLogError)

\* the pass rewrote a call and the content holds an error-level call
C4_Witness ==
    /\ LogsCalled
    /\ OnlyApplied("replace_debug_calls")
    /\ \E p \in 1..Len(file) : file[p] \in {HelperLog, HelperLogWarning}
    /\ \E p \in 1..Len(file) : file[p] = DebugLogError

\* C5: when the literal is absent and the content has using lines, the
\* literal line is inserted right after the leading run of using lines:
\* after the first match of the using pattern, whatever using lines follow
\* later in the content.
C5_InsertedAfterLeadingRun ==
    (/\ LogsCalled
     /\ applied = <<"add_using_statement">>
     /\ ~HasUsingStatement(original)
     /\ UsingMatches(original, 1) # <<>>)
    => file = InsertBefore(original, UsingMatches(original, 1)[1], <<LiteralLine>>)

(* ------------------------------ fix_instances --------------------------- *)

FixCalled == script = "fix_instances" /\ mode = "call" /\ calls >= 1

\* C7: fix_file applied to its own output finds no '<Symbol>.Instance' for
\* any symbol of the replace-list, returns None and does not write the file.
C7_SecondFixIsNoOp ==
    FixCalled =>
        /\ \A k \in 1..Len(REMOVED_SINGLETONS) : ~ReSearch(file, REMOVED_SINGLETONS[k])
        /\ calls >= 2 => (~wrote /\ changes = <<>> /\ ret = "None")

\* the second call returned, on content in which a replacement of the first
\* call stands next to another symbol of the replace-list
C7_Witness ==
    /\ FixCalled
    /\ calls = 2
    /\ \E p \in 1..Len(file) :
          /\ p + 4 <= Len(file)
          /\ file[p] = FactoryOpen
          /\ file[p + 2] = FactoryClose
          /\ file[p + 3] = Space
          /\ file[p + 4] \in Elems(REMOVED_SINGLETONS)
          /\ file[p + 4] # file[p + 1]

(* ---------------------------------- main -------------------------------- *)

\* C8: in each of the three scripts an I/O error of one file is caught and
\* main() goes on: the run never ends on an exception, and it ends only
\* once every entry of the enumeration has been visited.
C8_IOErrorNeverEndsRun ==
    mode = "main" =>
        /\ pc # "aborted"
        /\ pc = "done" => idx = EnumLen(script)

====
